---- MODULE Spec2Model ----
(***************************************************************************)
(* compgraph: a computational graph of lazy row streams.                   *)
(*                                                                         *)
(* Rows are dict objects: heap[ref] is the present content of object ref.  *)
(* Every generator of a run (Graph.run of a node, with the operation it    *)
(* delegates to by `yield from`) has its suspended state in gens[r][n].    *)
(* One consumer next() on the output stream of run r is one Pull(r) step:  *)
(* the generators below it are resumed synchronously, as in the single     *)
(* threaded pull evaluation of the code.                                   *)
(***************************************************************************)
EXTENDS Integers, Sequences, FiniteSets, TLC

VARIABLES
    graph,    \* the Graph nodes built so far: <<[op, arg, prev, side], ...>>
    inputs,   \* kwargs of run: source name -> [rows: refs, fresh: BOOLEAN]
    files,    \* file name -> the lines of the file
    heap,     \* the row objects: ref -> dict
    gens,     \* gens[r][n]: generator state of node n in run r
    handles,  \* handles[r]: the Read nodes of run r whose file is open
    out,      \* out[r]: the rows delivered to the consumer of run r
    status    \* status[r]: "idle", "running", "done", "abandoned" or an error

vars == <<graph, inputs, files, heap, gens, handles, out, status>>

None == 0

\* ---------------------------------------------------------------- bounds

\* longest input stream of a join
MaxRows == 2

\* longest input stream of a reduce
MaxGroup == 3

\* largest n of TopN
MaxN == 2

\* longest file
MaxLines == 2

\* most Graph nodes built
MaxNodes == 3

\* -------------------------------------------------------------- plumbing

RunIds == {1, 2}

Root == Len(graph)

Node(op, arg, prev, side) == [op |-> op, arg |-> arg, prev |-> prev, side |-> side]

\* What a resumed generator hands back: a row, StopIteration, or an exception.
Yield(S, ref) == [S |-> S, tag |-> "row", ref |-> ref]
Stop(S) == [S |-> S, tag |-> "stop", ref |-> None]
Raise(S, e) == [S |-> S, tag |-> e, ref |-> None]
Ok(S) == [S |-> S, tag |-> "ok", ref |-> None]

SetG(S, n, g) == [S EXCEPT !.g[n] = g]

\* dict(): a new row object
Alloc(S, row) == [S EXCEPT !.heap = Append(S.heap, row)]

\* row[k] = v
SetItem(row, k, v) == (k :> v) @@ row

Range(s) == {s[i] : i \in DOMAIN s}

\* Python's list < list on key lists of equal length
ListLess(a, b) ==
    \E i \in DOMAIN a :
        /\ i \in DOMAIN b
        /\ a[i] < b[i]
        /\ \A j \in 1..(i - 1) : a[j] = b[j]

\* ------------------------------------------------------------------ Graph
\* G is the Graph objects that exist; a new object is the next place of G.

\* Graph.__init__
Graph_init(G) == Append(G, Node(None, None, None, None))

graph_from_iter(G, name) ==
    [Graph_init(G) EXCEPT ![Len(G) + 1].op = "ReadIter",
                          ![Len(G) + 1].arg = [name |-> name]]

graph_from_file(G, filename, parser) ==
    [Graph_init(G) EXCEPT ![Len(G) + 1].op = "Read",
                          ![Len(G) + 1].arg = [filename |-> filename, parser |-> parser]]

map(G, self, mapper) ==
    [Graph_init(G) EXCEPT ![Len(G) + 1].op = "Map",
                          ![Len(G) + 1].arg = [mapper |-> mapper],
                          ![Len(G) + 1].prev = self]

reduce(G, self, reducer, keys) ==
    [Graph_init(G) EXCEPT ![Len(G) + 1].op = "Reduce",
                          ![Len(G) + 1].arg = [reducer |-> reducer, keys |-> keys],
                          ![Len(G) + 1].prev = self]

\* a variant: the new node is made its own input
sort_self(G, self, keys) ==
    [Graph_init(G) EXCEPT ![Len(G) + 1].op = "Sort",
                          ![Len(G) + 1].arg = [keys |-> keys],
                          ![Len(G) + 1].prev = Len(G) + 1]

sort(G, self, keys) ==
    [Graph_init(G) EXCEPT ![Len(G) + 1].op = "Sort",
                          ![Len(G) + 1].arg = [keys |-> keys],
                          ![Len(G) + 1].prev = self]

\* a join that also records the other graph on the receiver
join_linking(G, self, joiner, join_graph, keys) ==
    [Graph_init(G) EXCEPT ![Len(G) + 1].op = "Join",
                          ![Len(G) + 1].arg = [joiner |-> joiner, keys |-> keys],
                          ![Len(G) + 1].prev = self,
                          ![Len(G) + 1].side = join_graph,
                          ![self].side = join_graph]

join(G, self, joiner, join_graph, keys) ==
    [Graph_init(G) EXCEPT ![Len(G) + 1].op = "Join",
                          ![Len(G) + 1].arg = [joiner |-> joiner, keys |-> keys],
                          ![Len(G) + 1].prev = self,
                          ![Len(G) + 1].side = join_graph]

\* ------------------------------------------------------------- generators

NewGroupby == [hasCur |-> FALSE, curKey |-> <<>>, curVal |-> None,
               hasTgt |-> FALSE, tgtKey |-> <<>>]

NewJoinerGen == [pc |-> "none"]

\* the record of one call of a joiner or reducer by its Join or Reduce: the
\* key of the group, which of rows_a and rows_b is a group of the groupby,
\* and the rows read from each group so far
Call(key, a, b) == [key |-> key, a |-> a, b |-> b, rowsA |-> <<>>, rowsB |-> <<>>]

\* a mapper generator that has not run yet; text, m and row are Split's locals
NewMapperGen == [pc |-> "none", arg |-> None, text |-> <<>>, m |-> 0, row |-> None]

\* a reducer generator that has not run yet; lst and i are TopN's locals
NewReducerGen == [pc |-> "new", lst |-> <<>>, i |-> 0]

InitGen(nd) ==
    CASE nd.op = "ReadIter" -> [pc |-> "new", pos |-> 0]
      [] nd.op = "Read" -> [pc |-> "new", pos |-> 0]
      [] nd.op = "Join" -> [pc |-> "new",
                            gb |-> [a |-> NewGroupby, b |-> NewGroupby],
                            ag |-> FALSE, bg |-> FALSE,
                            ak |-> <<>>, bk |-> <<>>,
                            jg |-> NewJoinerGen, calls |-> <<>>]
      [] nd.op = "Map" -> [pc |-> "new", mg |-> NewMapperGen]
      [] nd.op = "Reduce" -> [pc |-> "new", gb |-> [a |-> NewGroupby],
                              rg |-> NewReducerGen, calls |-> <<>>]
      [] OTHER -> [pc |-> "new"]

\* Graph.run(**kwargs): creating the generators runs none of their code
NewGens == [n \in DOMAIN graph |-> InitGen(graph[n])]

RECURSIVE Pull(_, _)

\* a source that reads a missing name as an empty stream
ReadIterFactory_call_default(S, n) ==
    IF graph[n].arg.name \notin DOMAIN inputs \/ S.g[n].pc = "done"
       \/ S.g[n].pos >= Len(inputs[graph[n].arg.name].rows)
    THEN Stop([S EXCEPT !.g[n].pc = "done"])
    ELSE Yield([S EXCEPT !.g[n].pc = "iter", !.g[n].pos = @ + 1],
               inputs[graph[n].arg.name].rows[S.g[n].pos + 1])

\* ReadIterFactory.__call__: for row in kwargs[self.name](): yield row
\* (the KeyError of kwargs[self.name] is told apart from the KeyError of a
\* row lookup by the name "MissingInput")
ReadIterFactory_call(S, n) ==
    LET g == S.g[n]
        name == graph[n].arg.name
    IN  IF g.pc = "done" THEN Stop(S)
        ELSE IF name \notin DOMAIN inputs
        THEN Raise(SetG(S, n, [g EXCEPT !.pc = "done"]), "MissingInput")
        ELSE LET src == inputs[name]
             IN IF g.pos >= Len(src.rows)
                THEN Stop(SetG(S, n, [g EXCEPT !.pc = "done"]))
                ELSE LET ref == src.rows[g.pos + 1]
                         S1 == SetG(S, n, [g EXCEPT !.pc = "iter", !.pos = g.pos + 1])
                     IN IF src.fresh
                        THEN LET S2 == Alloc(S1, S1.heap[ref])
                             IN Yield(S2, Len(S2.heap))
                        ELSE Yield(S1, ref)

\* -------------------------------------------------------------------- Read
\* A line of a file is [ok, row]: parser(line) returns row, or raises if ~ok.

\* with open(self.filename) as f: entered
Read_open(S, n) == [S EXCEPT !.open = @ \cup {n}, !.g[n].pc = "open"]

\* the same block without its exit
Read_close_never(S, n, pc) == [S EXCEPT !.g[n].pc = pc]

\* the with block left, by its end or by an exception: f is closed
Read_close(S, n, pc) == [S EXCEPT !.open = @ \ {n}, !.g[n].pc = pc]

\* for line in f: yield self.parser(line)
Read_line(S, n, lines) ==
    IF S.g[n].pos >= Len(lines) THEN Stop(Read_close(S, n, "done"))
    ELSE IF ~lines[S.g[n].pos + 1].ok THEN Raise(Read_close(S, n, "done"), "ParseError")
    ELSE Yield([S EXCEPT !.heap = Append(@, lines[S.g[n].pos + 1].row),
                         !.g[n].pos = @ + 1],
               Len(S.heap) + 1)

\* Read.__call__, resumed
Read_call(S, n) ==
    CASE S.g[n].pc = "new" ->
            IF graph[n].arg.filename \notin DOMAIN files
            THEN Raise([S EXCEPT !.g[n].pc = "done"], "FileNotFoundError")
            ELSE Read_line(Read_open(S, n), n, files[graph[n].arg.filename])
      [] S.g[n].pc = "open" -> Read_line(S, n, files[graph[n].arg.filename])
      [] OTHER -> Stop(S)

\* generator.close() on the generators of a dropped stream: GeneratorExit at
\* the yield of each suspended Read leaves its with block
RECURSIVE close(_, _)
close(S, nodes) ==
    IF nodes = {} THEN S
    ELSE LET n == CHOOSE m \in nodes : TRUE
         IN IF graph[n].op = "Read" /\ S.g[n].pc = "open"
            THEN close(Read_close(S, n, "closed"), nodes \ {n})
            ELSE close(S, nodes \ {n})

\* ---------------------------------------------------------------- groupby
\* (a result that a later step reads several times is handed to an operator
\* of its own as a parameter, so that it is computed once)

\* the stream a groupby of node n reads: side "a" is prev, side "b" is side
Upstream(n, sd) == IF sd = "a" THEN graph[n].prev ELSE graph[n].side

\* safe_itemgetter(keys)(row) and Join._comparator(row): the values at keys
HasKeys(row, keys) == \A i \in DOMAIN keys : keys[i] \in DOMAIN row

safe_itemgetter(keys, row) == [i \in DOMAIN keys |-> row[keys[i]]]

\* groupby: the key of the row just read (r) becomes the current key
groupby_key(r, n, sd) ==
    IF r.tag # "row" THEN r
    ELSE IF ~HasKeys(r.S.heap[r.ref], graph[n].arg.keys) THEN Raise(r.S, "KeyError")
    ELSE Ok([r.S EXCEPT !.g[n].gb[sd].hasCur = TRUE,
                        !.g[n].gb[sd].curKey =
                            safe_itemgetter(graph[n].arg.keys, r.S.heap[r.ref]),
                        !.g[n].gb[sd].curVal = r.ref])

\* itertools.groupby: read one row of the underlying stream and compute its key
groupby_step(S, n, sd) == groupby_key(Pull(S, Upstream(n, sd)), n, sd)

RECURSIVE groupby_next(_, _, _)

groupby_again(r, n, sd) == IF r.tag # "ok" THEN r ELSE groupby_next(r.S, n, sd)

\* a variant: the row after the last one read starts a group, equal key or not
groupby_next_each_row(S, n, sd) ==
    IF S.g[n].gb[sd].hasCur /\ S.g[n].gb[sd].curVal # None
    THEN Ok([S EXCEPT !.g[n].gb[sd].hasTgt = TRUE,
                      !.g[n].gb[sd].tgtKey = S.g[n].gb[sd].curKey])
    ELSE groupby_again(groupby_step(S, n, sd), n, sd)

\* next(groupby): skip what is left of the present group, start the next one
groupby_next(S, n, sd) ==
    IF S.g[n].gb[sd].hasCur
       /\ (~S.g[n].gb[sd].hasTgt \/ S.g[n].gb[sd].tgtKey # S.g[n].gb[sd].curKey)
    THEN Ok([S EXCEPT !.g[n].gb[sd].hasTgt = TRUE,
                      !.g[n].gb[sd].tgtKey = S.g[n].gb[sd].curKey])
    ELSE groupby_again(groupby_step(S, n, sd), n, sd)

grouper_take(r, n, sd) ==
    IF r.tag # "ok" THEN r
    ELSE IF r.S.g[n].gb[sd].tgtKey # r.S.g[n].gb[sd].curKey THEN Stop(r.S)
    ELSE Yield([r.S EXCEPT !.g[n].gb[sd].curVal = None,
                           !.g[n].calls[Len(r.S.g[n].calls)][IF sd = "a" THEN "rowsA" ELSE "rowsB"] =
                               Append(@, r.S.g[n].gb[sd].curVal)],
               r.S.g[n].gb[sd].curVal)

\* next(group): the held row if it belongs to the group, else StopIteration
grouper_next(S, n, sd) ==
    grouper_take(IF S.g[n].gb[sd].curVal = None THEN groupby_step(S, n, sd) ELSE Ok(S),
                 n, sd)

RECURSIVE list_group(_, _, _, _)

list_more(r, n, sd, acc) ==
    IF r.tag = "row" THEN list_group(r.S, n, sd, Append(acc, r.ref))
    ELSE IF r.tag = "stop" THEN [S |-> r.S, tag |-> "ok", ref |-> acc]
    ELSE r

\* list(group): ref of the result holds the list
list_group(S, n, sd, acc) == list_more(grouper_next(S, n, sd), n, sd, acc)

\* ----------------------------------------------------------------- joiners

\* the generator of one joiner call; rows_a and rows_b are each the group of
\* the groupby ("grouper") or the literal [] ("list") that Join passes
JoinerStart(aSrc, bSrc) ==
    [pc |-> "new", ppc |-> "new", aSrc |-> aSrc, bSrc |-> bSrc,
     listA |-> <<>>, listB |-> <<>>, cur |-> None, j |-> 0, ai |-> 0, pi |-> 0]

\* next() on the iterator over rows_a
NextA(S, n) ==
    IF S.g[n].jg.aSrc = "grouper" THEN grouper_next(S, n, "a")
    ELSE IF S.g[n].jg.ai < Len(S.g[n].jg.listA)
    THEN Yield([S EXCEPT !.g[n].jg.ai = @ + 1], S.g[n].jg.listA[S.g[n].jg.ai + 1])
    ELSE Stop(S)

\* a variant: rows_a is never taken to be empty
NotRowsA_never(jg) == FALSE

\* a variant: a group object is tested like the list of its unread rows
NotRowsA_as_list(jg) == jg.listA = <<>>

\* not rows_a: an empty list is false, a group object of groupby is true
NotRowsA(jg) == jg.aSrc = "list" /\ jg.listA = <<>>

RECURSIVE AssignCommon(_, _, _, _, _, _)
AssignCommon(row, common, a, b, sa, sb) ==
    IF common = {} THEN row
    ELSE LET k == CHOOSE x \in common : TRUE
         IN AssignCommon(SetItem(SetItem(row, k \o sa, a[k]), k \o sb, b[k]),
                         common \ {k}, a, b, sa, sb)

\* the dict after the loops over a's own and b's own columns
AssignOwn(row, src, own) ==
    [k \in (DOMAIN row) \cup own |-> IF k \in own THEN src[k] ELSE row[k]]

\* the row prod_tables builds for the pair (a, b)
prod_row(keys, a, b, sa, sb) ==
    AssignOwn(
        AssignOwn(
            AssignCommon([k \in Range(keys) |-> a[k]],
                         ((DOMAIN a) \cap (DOMAIN b)) \ Range(keys), a, b, sa, sb),
            a, (DOMAIN a) \ (DOMAIN b)),
        b, (DOMAIN b) \ (DOMAIN a))

\* a variant: the inner loop over rows_b stops after its first row
prod_emit_first_b(S, n, jg, row) ==
    Yield([S EXCEPT !.heap = Append(@, row),
                    !.g[n].jg.j = jg.j + 1,
                    !.g[n].jg.ppc = "fetch"],
          Len(S.heap) + 1)

\* prod_tables: yield row, then the next b, or the next a after the last b
prod_emit(S, n, jg, row) ==
    Yield([S EXCEPT !.heap = Append(@, row),
                    !.g[n].jg.j = jg.j + 1,
                    !.g[n].jg.ppc = IF jg.j + 1 > Len(jg.listB) THEN "fetch" ELSE "emit"],
          Len(S.heap) + 1)

RECURSIVE prod_tables(_, _)

prod_fetched(r, n) ==
    IF r.tag = "row"
    THEN prod_tables([r.S EXCEPT !.g[n].jg.ppc = "emit",
                                 !.g[n].jg.cur = r.ref,
                                 !.g[n].jg.j = 1], n)
    ELSE IF r.tag = "stop" THEN Stop([r.S EXCEPT !.g[n].jg.ppc = "done"])
    ELSE r

\* Joiner.prod_tables, resumed
prod_tables(S, n) ==
    CASE S.g[n].jg.ppc = "new" ->
            IF S.g[n].jg.listB = <<>>
            THEN Stop([S EXCEPT !.g[n].jg.ppc = "done"])
            ELSE prod_tables([S EXCEPT !.g[n].jg.ppc = "fetch"], n)
      [] S.g[n].jg.ppc = "fetch" -> prod_fetched(NextA(S, n), n)
      [] S.g[n].jg.ppc = "emit" ->
            prod_emit(S, n, S.g[n].jg,
                      prod_row(graph[n].arg.keys, S.heap[S.g[n].jg.cur],
                               S.heap[S.g[n].jg.listB[S.g[n].jg.j]],
                               graph[n].arg.joiner.suffix_a,
                               graph[n].arg.joiner.suffix_b))
      [] OTHER -> Stop(S)

RECURSIVE joiner_next(_, _)

\* rows_a and rows_b are as the joiner made them: on to prod_tables
joiner_listed_b(rb, listA, n) ==
    IF rb.tag # "ok" THEN rb
    ELSE joiner_next([rb.S EXCEPT !.g[n].jg.pc = "prod",
                                  !.g[n].jg.listA = listA,
                                  !.g[n].jg.listB = rb.ref,
                                  !.g[n].jg.aSrc =
                                      IF graph[n].arg.joiner.kind = "Outer"
                                      THEN "list" ELSE @], n)

\* every joiner: rows_b = list(rows_b)
joiner_listed_a(ra, n) ==
    IF ra.tag # "ok" THEN ra
    ELSE joiner_listed_b(IF ra.S.g[n].jg.bSrc = "grouper"
                         THEN list_group(ra.S, n, "b", <<>>)
                         ELSE [S |-> ra.S, tag |-> "ok", ref |-> <<>>],
                         ra.ref, n)

joiner_after_prod(r, n) ==
    IF r.tag = "stop" THEN joiner_next([r.S EXCEPT !.g[n].jg.pc = "if1"], n) ELSE r

joiner_from_a(r, n) ==
    IF r.tag = "stop" THEN Stop([r.S EXCEPT !.g[n].jg.pc = "done"]) ELSE r

\* InnerJoiner / OuterJoiner / LeftJoiner / RightJoiner .__call__, resumed
joiner_next(S, n) ==
    CASE S.g[n].jg.pc = "new" ->
            \* OuterJoiner alone starts with rows_a = list(rows_a)
            joiner_listed_a(IF graph[n].arg.joiner.kind = "Outer"
                               /\ S.g[n].jg.aSrc = "grouper"
                            THEN list_group(S, n, "a", <<>>)
                            ELSE [S |-> S, tag |-> "ok", ref |-> <<>>], n)
      [] S.g[n].jg.pc = "prod" -> joiner_after_prod(prod_tables(S, n), n)
      [] S.g[n].jg.pc = "if1" ->
            \* Outer, Right: if not rows_a: yield from rows_b
            IF graph[n].arg.joiner.kind \in {"Outer", "Right"} /\ NotRowsA(S.g[n].jg)
            THEN joiner_next([S EXCEPT !.g[n].jg.pc = "fromB"], n)
            ELSE joiner_next([S EXCEPT !.g[n].jg.pc = "if2"], n)
      [] S.g[n].jg.pc = "fromB" ->
            IF S.g[n].jg.pi < Len(S.g[n].jg.listB)
            THEN Yield([S EXCEPT !.g[n].jg.pi = @ + 1],
                       S.g[n].jg.listB[S.g[n].jg.pi + 1])
            ELSE joiner_next([S EXCEPT !.g[n].jg.pc = "if2"], n)
      [] S.g[n].jg.pc = "if2" ->
            \* Outer, Left: if not rows_b: yield from rows_a
            IF graph[n].arg.joiner.kind \in {"Outer", "Left"} /\ S.g[n].jg.listB = <<>>
            THEN joiner_next([S EXCEPT !.g[n].jg.pc = "fromA"], n)
            ELSE Stop([S EXCEPT !.g[n].jg.pc = "done"])
      [] S.g[n].jg.pc = "fromA" -> joiner_from_a(NextA(S, n), n)
      [] OTHER -> Stop(S)

\* -------------------------------------------------------------------- Join

next_iter_set(r, n, sd, has, key) ==
    IF r.tag = "ok"
    THEN Ok([r.S EXCEPT !.g[n][has] = TRUE, !.g[n][key] = r.S.g[n].gb[sd].curKey])
    ELSE IF r.tag = "stop"
    THEN Ok([r.S EXCEPT !.g[n][has] = FALSE, !.g[n][key] = <<>>])
    ELSE r

\* Join._next_iter on the groupby of side sd: (key, group) or (None, None)
next_iter(S, n, sd) ==
    next_iter_set(groupby_next(S, n, sd), n, sd,
                  IF sd = "a" THEN "ag" ELSE "bg", IF sd = "a" THEN "ak" ELSE "bk")

RECURSIVE Join_call(_, _)

\* a variant: no key is ever less than the other
KeyLess_never(x, y) == FALSE

\* ak < bk on the key lists of the two groups
KeyLess(x, y) == ListLess(x, y)

Join_loop(r, n) ==
    IF r.tag # "ok" THEN r ELSE Join_call([r.S EXCEPT !.g[n].pc = "loop"], n)

Join_next_b(r, n, pc) ==
    IF r.tag # "ok" THEN r
    ELSE Join_loop(IF pc \in {"gt", "eq", "drainB", "new"}
                   THEN next_iter(r.S, n, "b") ELSE r, n)

Join_next_a(r, n, pc) ==
    IF r.tag # "stop" THEN r
    ELSE Join_next_b(IF pc \in {"lt", "eq", "drainA", "new"}
                     THEN next_iter(r.S, n, "a") ELSE Ok(r.S), n, pc)

\* a variant: the joiner always gets the two present groups
Join_joiner_both(S, n, pc, aSrc, bSrc) ==
    Join_call([S EXCEPT !.g[n].pc = pc, !.g[n].jg = JoinerStart("grouper", "grouper"),
                        !.g[n].calls = Append(@, Call(S.g[n].ak, TRUE, TRUE))], n)

\* yield from self.joiner(self.keys, rows_a, rows_b)
Join_joiner(S, n, pc, aSrc, bSrc) ==
    Join_call([S EXCEPT !.g[n].pc = pc, !.g[n].jg = JoinerStart(aSrc, bSrc),
                        !.g[n].calls = Append(@, Call(IF aSrc = "grouper" THEN S.g[n].ak
                                                      ELSE S.g[n].bk,
                                                      aSrc = "grouper", bSrc = "grouper"))], n)

\* Join.__call__, resumed
Join_call(S, n) ==
    CASE S.g[n].pc = "new" -> Join_next_a(Stop(S), n, "new")
      [] S.g[n].pc = "loop" ->
            IF S.g[n].ag /\ S.g[n].bg
            THEN IF KeyLess(S.g[n].ak, S.g[n].bk)
                 THEN Join_joiner(S, n, "lt", "grouper", "list")
                 ELSE IF KeyLess(S.g[n].bk, S.g[n].ak)
                 THEN Join_joiner(S, n, "gt", "list", "grouper")
                 ELSE Join_joiner(S, n, "eq", "grouper", "grouper")
            ELSE IF S.g[n].ag THEN Join_joiner(S, n, "drainA", "grouper", "list")
            ELSE IF S.g[n].bg THEN Join_joiner(S, n, "drainB", "list", "grouper")
            ELSE Stop([S EXCEPT !.g[n].pc = "done"])
      [] S.g[n].pc \in {"lt", "gt", "eq", "drainA", "drainB"} ->
            Join_next_a(joiner_next(S, n), n, S.g[n].pc)
      [] OTHER -> Stop(S)

\* ----------------------------------------------------------------- mappers
\* A text is a sequence of characters.

\* str.lower
LowerChar(c) == CASE c = "A" -> "a" [] c = "B" -> "b" [] OTHER -> c
lower_case(txt) == [i \in DOMAIN txt |-> LowerChar(txt[i])]

\* re.sub('[%s]' % re.escape(string.punctuation), '', txt)
IsPunct(c) == c \in {",", ".", "!", "+"}
NotPunct(c) == ~IsPunct(c)
filter_punctuation(txt) == SelectSeq(txt, NotPunct)

\* the default separator of Split, r'[\s+]': one white space or one "+"
IsSeparator(c) == c \in {" ", "+"}

\* re.finditer(separator, text): the places (from 1) of the matches, in order
RECURSIVE Matches(_, _)
Matches(text, from) ==
    IF from > Len(text) THEN <<>>
    ELSE IF IsSeparator(text[from]) THEN <<from>> \o Matches(text, from + 1)
    ELSE Matches(text, from + 1)

\* the condition of a Filter and the function of an Apply: callables of the caller
Condition(name, row) ==
    CASE name = "x_is_1" -> row.x = 1
      [] name = "has_upper" -> row.text # lower_case(row.text)
      [] OTHER -> TRUE
Func(name, args) ==
    CASE name = "add_one" -> args[1] + 1
      [] OTHER -> args[1]

RECURSIVE ProductOf(_, _)
ProductOf(row, columns) ==
    IF columns = <<>> THEN 1 ELSE row[columns[1]] * ProductOf(row, Tail(columns))

\* a mapper that yields one row: `same` is the row it was given
YieldOnce(S, n, ref) == Yield([S EXCEPT !.g[n].mg.pc = "yielded"], ref)
YieldNew(S, n, row) ==
    Yield([S EXCEPT !.heap = Append(@, row), !.g[n].mg.pc = "yielded"], Len(S.heap) + 1)

\* FilterPunctuation / LowerCase: row[self.column] = ...; yield row
AssignInPlace(S, n, ref, column, v) ==
    YieldOnce([S EXCEPT !.heap[ref] = SetItem(@, column, v)], n, ref)

\* Split.__call__, resumed after a yield: the next token, then the tail
Split_next(S, n, m, prev, ref, column) ==
    IF m <= Len(Matches(S.g[n].mg.text, 1))
    THEN Yield([S EXCEPT !.heap = Append(@, SetItem(S.heap[ref], column,
                                 SubSeq(S.g[n].mg.text, prev + 1,
                                        Matches(S.g[n].mg.text, 1)[m] - 1))),
                         !.g[n].mg.pc = "token", !.g[n].mg.m = m,
                         !.g[n].mg.row = Len(S.heap) + 1],
               Len(S.heap) + 1)
    ELSE IF Len(S.g[n].mg.text) # prev
    THEN Yield([S EXCEPT !.heap = Append(@, SetItem(S.heap[ref], column,
                                 SubSeq(S.g[n].mg.text, prev + 1, Len(S.g[n].mg.text)))),
                         !.g[n].mg.pc = "yielded"],
               Len(S.heap) + 1)
    ELSE Stop([S EXCEPT !.g[n].mg.pc = "done"])

\* the mapper generator of Map node n, resumed; mp is the mapper, ref its row
mapper_next(S, n, mp, ref) ==
    CASE S.g[n].mg.pc = "new" /\ mp.kind = "Dummy" -> YieldOnce(S, n, ref)
      [] S.g[n].mg.pc = "new" /\ mp.kind = "FilterPunctuation" ->
            IF mp.column \notin DOMAIN S.heap[ref] THEN Raise(S, "KeyError")
            ELSE AssignInPlace(S, n, ref, mp.column,
                               filter_punctuation(S.heap[ref][mp.column]))
      [] S.g[n].mg.pc = "new" /\ mp.kind = "LowerCase" ->
            IF mp.column \notin DOMAIN S.heap[ref] THEN Raise(S, "KeyError")
            ELSE AssignInPlace(S, n, ref, mp.column, lower_case(S.heap[ref][mp.column]))
      [] S.g[n].mg.pc = "new" /\ mp.kind = "Split" ->
            IF mp.column \notin DOMAIN S.heap[ref] THEN Raise(S, "KeyError")
            ELSE Split_next([S EXCEPT !.g[n].mg.text = S.heap[ref][mp.column]],
                            n, 1, 0, ref, mp.column)
      [] S.g[n].mg.pc = "token" /\ mp.kind = "Split" ->
            \* prev = cur.end(); row = row.copy(): a copy of the row it yielded
            Split_next(S, n, S.g[n].mg.m + 1,
                       Matches(S.g[n].mg.text, 1)[S.g[n].mg.m],
                       S.g[n].mg.row, mp.column)
      [] S.g[n].mg.pc = "new" /\ mp.kind = "Project" ->
            IF ~HasKeys(S.heap[ref], mp.columns) THEN Raise(S, "KeyError")
            ELSE YieldNew(S, n, [k \in Range(mp.columns) |-> S.heap[ref][k]])
      [] S.g[n].mg.pc = "new" /\ mp.kind = "Remove" ->
            YieldNew(S, n, [k \in (DOMAIN S.heap[ref]) \ Range(mp.columns) |-> S.heap[ref][k]])
      [] S.g[n].mg.pc = "new" /\ mp.kind = "Filter" ->
            IF Condition(mp.condition, S.heap[ref]) THEN YieldOnce(S, n, ref)
            ELSE Stop([S EXCEPT !.g[n].mg.pc = "done"])
      [] S.g[n].mg.pc = "new" /\ mp.kind = "Apply" ->
            IF ~HasKeys(S.heap[ref], mp.columns) THEN Raise(S, "KeyError")
            ELSE YieldNew(S, n, SetItem(S.heap[ref], mp.result_column,
                                        Func(mp.func, safe_itemgetter(mp.columns, S.heap[ref]))))
      [] S.g[n].mg.pc = "new" /\ mp.kind = "Product" ->
            IF ~HasKeys(S.heap[ref], mp.columns) THEN Raise(S, "KeyError")
            ELSE YieldNew(S, n, SetItem(S.heap[ref], mp.result_column,
                                        ProductOf(S.heap[ref], mp.columns)))
      [] OTHER -> Stop([S EXCEPT !.g[n].mg.pc = "done"])

\* --------------------------------------------------------------------- Map

RECURSIVE Map_call(_, _)

\* for row in rows: the mapper is called on the row
Map_row(r, n) ==
    IF r.tag = "row"
    THEN Map_call([r.S EXCEPT !.g[n].pc = "in",
                              !.g[n].mg = [NewMapperGen EXCEPT !.pc = "new", !.arg = r.ref]], n)
    ELSE IF r.tag = "stop" THEN Stop([r.S EXCEPT !.g[n].pc = "done"])
    ELSE r

\* yield from self.mapper(row)
Map_resumed(r, n) ==
    IF r.tag = "stop" THEN Map_call([r.S EXCEPT !.g[n].pc = "next"], n) ELSE r

\* Map.__call__, resumed
Map_call(S, n) ==
    CASE S.g[n].pc \in {"new", "next"} -> Map_row(Pull(S, graph[n].prev), n)
      [] S.g[n].pc = "in" ->
            Map_resumed(mapper_next(S, n, graph[n].arg.mapper, S.g[n].mg.arg), n)
      [] OTHER -> Stop(S)

\* ---------------------------------------------------------------- reducers

\* FirstReducer.__call__, resumed: yield the first row, then break
First_took(r, n) ==
    IF r.tag = "row" THEN Yield([r.S EXCEPT !.g[n].rg.pc = "yielded"], r.ref)
    ELSE IF r.tag = "stop" THEN Stop([r.S EXCEPT !.g[n].rg.pc = "done"])
    ELSE r

First_call(S, n) ==
    IF S.g[n].rg.pc = "new" THEN First_took(grouper_next(S, n, "a"), n)
    ELSE Stop([S EXCEPT !.g[n].rg.pc = "done"])

\* a variant: the count is set, never incremented
Count_row_set(result_row, row, group_key, column) ==
    SetItem([k \in {c \in Range(group_key) : c \in DOMAIN row} |-> row[k]], column, 1)

\* Count: the result row after one more row of the group
Count_row(result_row, row, group_key, column) ==
    IF DOMAIN result_row = {}
    THEN SetItem([k \in {c \in Range(group_key) : c \in DOMAIN row} |-> row[k]], column, 1)
    ELSE SetItem(result_row, column, result_row[column] + 1)

RECURSIVE Count_loop(_, _, _)

Count_more(r, n, result_row) ==
    IF r.tag = "row"
    THEN Count_loop(r.S, n, Count_row(result_row, r.S.heap[r.ref], graph[n].arg.keys,
                                      graph[n].arg.reducer.column))
    ELSE IF r.tag = "stop"
    THEN Yield([r.S EXCEPT !.heap = Append(@, result_row), !.g[n].rg.pc = "yielded"],
               Len(r.S.heap) + 1)
    ELSE r

Count_loop(S, n, result_row) == Count_more(grouper_next(S, n, "a"), n, result_row)

\* Count.__call__, resumed
Count_call(S, n) ==
    IF S.g[n].rg.pc = "new" THEN Count_loop(S, n, <<>>)
    ELSE Stop([S EXCEPT !.g[n].rg.pc = "done"])

\* (value, -i, row) < (value, -i, row): the -i differ, the rows are never compared
TupleLess(x, y) == x[1] < y[1] \/ (x[1] = y[1] /\ x[2] < y[2])

\* heapq._siftdown (positions from 0, as in heapq)
RECURSIVE siftdown(_, _, _, _)
siftdown(h, startpos, pos, newitem) ==
    IF pos > startpos /\ TupleLess(newitem, h[((pos - 1) \div 2) + 1])
    THEN siftdown([h EXCEPT ![pos + 1] = h[((pos - 1) \div 2) + 1]],
                  startpos, (pos - 1) \div 2, newitem)
    ELSE [h EXCEPT ![pos + 1] = newitem]

\* heapq._siftup: the smaller child of pos moves up until a leaf is hit
SmallerChild(h, pos) ==
    IF 2 * pos + 2 < Len(h) /\ ~TupleLess(h[2 * pos + 2], h[2 * pos + 3])
    THEN 2 * pos + 2 ELSE 2 * pos + 1

RECURSIVE siftup(_, _, _, _)
siftup(h, startpos, pos, newitem) ==
    IF 2 * pos + 1 < Len(h)
    THEN siftup([h EXCEPT ![pos + 1] = h[SmallerChild(h, pos) + 1]],
                startpos, SmallerChild(h, pos), newitem)
    ELSE siftdown([h EXCEPT ![pos + 1] = newitem], startpos, pos, newitem)

heappush(h, item) == siftdown(Append(h, item), 0, Len(h), item)

\* the heap that heapq.heappop leaves
heappop(h) ==
    IF Len(h) = 1 THEN <<>>
    ELSE siftup([SubSeq(h, 1, Len(h) - 1) EXCEPT ![1] = h[Len(h)]], 0, 0, h[Len(h)])

\* TopN: sorted_lst after the row el = (row[column], -i, row)
TopN_keep(lst, el, N) ==
    IF Len(lst) < N THEN heappush(lst, el)
    ELSE IF el[1] > lst[1][1] THEN heappush(heappop(lst), el)
    ELSE lst

RECURSIVE TopN_loop(_, _, _, _)

TopN_more(r, n, lst, i) ==
    IF r.tag = "row"
    THEN IF graph[n].arg.reducer.column \notin DOMAIN r.S.heap[r.ref]
         THEN Raise(r.S, "KeyError")
         ELSE IF Len(lst) >= graph[n].arg.reducer.n /\ lst = <<>>
         THEN Raise(r.S, "IndexError")       \* sorted_lst[0] of an empty list
         ELSE TopN_loop(r.S, n,
                        TopN_keep(lst, <<r.S.heap[r.ref][graph[n].arg.reducer.column],
                                         0 - i, r.ref>>, graph[n].arg.reducer.n),
                        i + 1)
    ELSE IF r.tag = "stop"
    THEN Ok([r.S EXCEPT !.g[n].rg.pc = "emit", !.g[n].rg.lst = lst, !.g[n].rg.i = 0])
    ELSE r

TopN_loop(S, n, lst, i) == TopN_more(grouper_next(S, n, "a"), n, lst, i)

\* for a, b, row in sorted_lst: yield row
TopN_emit(r, n) ==
    IF r.tag # "ok" THEN r
    ELSE IF r.S.g[n].rg.i < Len(r.S.g[n].rg.lst)
    THEN Yield([r.S EXCEPT !.g[n].rg.i = @ + 1], r.S.g[n].rg.lst[r.S.g[n].rg.i + 1][3])
    ELSE Stop([r.S EXCEPT !.g[n].rg.pc = "done"])

\* TopN.__call__, resumed
TopN_call(S, n) ==
    IF S.g[n].rg.pc = "new" THEN TopN_emit(TopN_loop(S, n, <<>>, 0), n)
    ELSE IF S.g[n].rg.pc = "emit" THEN TopN_emit(Ok(S), n)
    ELSE Stop(S)

\* the reducer generator of the present group, resumed
reducer_next(S, n) ==
    CASE graph[n].arg.reducer.kind = "First" -> First_call(S, n)
      [] graph[n].arg.reducer.kind = "Count" -> Count_call(S, n)
      [] graph[n].arg.reducer.kind = "TopN" -> TopN_call(S, n)
      [] OTHER -> Stop(S)

\* ------------------------------------------------------------------ Reduce

RECURSIVE Reduce_call(_, _)

\* for key, group_items in groupby(...): the reducer is called on the group
Reduce_group(r, n) ==
    IF r.tag = "ok"
    THEN Reduce_call([r.S EXCEPT !.g[n].pc = "in", !.g[n].rg = NewReducerGen,
                                 !.g[n].calls = Append(@, Call(r.S.g[n].gb.a.tgtKey, TRUE, FALSE))],
                     n)
    ELSE IF r.tag = "stop" THEN Stop([r.S EXCEPT !.g[n].pc = "done"])
    ELSE r

\* yield from self.reducer(tuple(self.keys), group_items)
Reduce_resumed(r, n) ==
    IF r.tag = "stop" THEN Reduce_call([r.S EXCEPT !.g[n].pc = "next"], n) ELSE r

\* Reduce.__call__, resumed
Reduce_call(S, n) ==
    CASE S.g[n].pc \in {"new", "next"} -> Reduce_group(groupby_next(S, n, "a"), n)
      [] S.g[n].pc = "in" -> Reduce_resumed(reducer_next(S, n), n)
      [] OTHER -> Stop(S)

\* ---------------------------------------------------------------- Graph.run

\* the assert statements of Graph.run on node nd
run_asserts(nd) ==
    IF nd.op \in {"ReadIter", "Read"} THEN nd.prev = None /\ nd.side = None
    ELSE IF nd.op = "Join" THEN nd.side # None /\ nd.prev # None
    ELSE nd.op \in {"Map", "Reduce", "Sort"} /\ nd.side = None /\ nd.prev # None

\* Graph.run of node n, resumed: yield from the operation of the node
Pull(S, n) ==
    CASE ~run_asserts(graph[n]) -> Raise(S, "AssertionError")
      [] graph[n].op = "ReadIter" -> ReadIterFactory_call(S, n)
      [] graph[n].op = "Read" -> Read_call(S, n)
      [] graph[n].op = "Join" -> Join_call(S, n)
      [] graph[n].op = "Map" -> Map_call(S, n)
      [] graph[n].op = "Reduce" -> Reduce_call(S, n)
      [] OTHER -> Stop(S)

\* ------------------------------------------------------------------ actions

\* what one next() of the consumer of run r leaves behind
Deliver(r, res) ==
    /\ heap' = res.S.heap
    /\ gens' = [gens EXCEPT ![r] = res.S.g]
    /\ handles' = [handles EXCEPT ![r] = res.S.open]
    /\ out' = [out EXCEPT ![r] = IF res.tag = "row"
                                 THEN Append(@, res.S.heap[res.ref]) ELSE @]
    /\ status' = [status EXCEPT ![r] = IF res.tag = "row" THEN "running"
                                       ELSE IF res.tag = "stop" THEN "done"
                                       ELSE res.tag]

\* the consumer's next() on the output stream of run r
Next_row(r) ==
    /\ status[r] = "running"
    /\ Deliver(r, Pull([heap |-> heap, g |-> gens[r], open |-> handles[r]], Root))
    /\ UNCHANGED <<graph, inputs, files>>

\* Graph.run called again, after the stream of run r - 1 has ended: the
\* generators of the new run are created, none has started
StartRun(r) ==
    /\ r - 1 \in RunIds
    /\ status[r] = "idle"
    /\ status[r - 1] \notin {"idle", "running"}
    /\ gens' = [gens EXCEPT ![r] = NewGens]
    /\ status' = [status EXCEPT ![r] = "running"]
    /\ UNCHANGED <<graph, inputs, files, heap, handles, out>>

\* the consumer stops taking rows and drops the stream
Abandon(r) ==
    /\ status[r] = "running"
    /\ status' = [status EXCEPT ![r] = "abandoned"]
    /\ UNCHANGED <<graph, inputs, files, heap, gens, handles, out>>

\* the generators of a stream that was dropped, or that an exception ended,
\* are finalised by the runtime: each suspended one is closed
Finalize(r) ==
    /\ status[r] \notin {"idle", "running", "done"}
    /\ \E n \in DOMAIN graph : graph[n].op = "Read" /\ gens[r][n].pc = "open"
    /\ gens' = [gens EXCEPT ![r] =
                    close([heap |-> heap, g |-> gens[r], open |-> handles[r]], DOMAIN graph).g]
    /\ handles' = [handles EXCEPT ![r] =
                    close([heap |-> heap, g |-> gens[r], open |-> handles[r]], DOMAIN graph).open]
    /\ UNCHANGED <<graph, inputs, files, heap, out, status>>

\* the builder calls, on nodes that exist
Call_graph_from_iter(name) ==
    /\ Len(graph) < MaxNodes
    /\ graph' = graph_from_iter(graph, name)
    /\ UNCHANGED <<inputs, files, heap, gens, handles, out, status>>

Call_graph_from_file(filename) ==
    /\ Len(graph) < MaxNodes
    /\ graph' = graph_from_file(graph, filename, "parser")
    /\ UNCHANGED <<inputs, files, heap, gens, handles, out, status>>

Call_map(self, mapper) ==
    /\ Len(graph) < MaxNodes
    /\ graph' = map(graph, self, mapper)
    /\ UNCHANGED <<inputs, files, heap, gens, handles, out, status>>

Call_reduce(self, reducer, keys) ==
    /\ Len(graph) < MaxNodes
    /\ graph' = reduce(graph, self, reducer, keys)
    /\ UNCHANGED <<inputs, files, heap, gens, handles, out, status>>

Call_sort(self, keys) ==
    /\ Len(graph) < MaxNodes
    /\ graph' = sort(graph, self, keys)
    /\ UNCHANGED <<inputs, files, heap, gens, handles, out, status>>

Call_join(self, joiner, join_graph, keys) ==
    /\ Len(graph) < MaxNodes
    /\ graph' = join(graph, self, joiner, join_graph, keys)
    /\ UNCHANGED <<inputs, files, heap, gens, handles, out, status>>

\* ------------------------------------------------------- streams for checks

SeqsUpTo(R, n) == UNION {[1..m -> R] : m \in 0..n}

\* sorted ascending by keys
IsSorted(s, keys) ==
    \A i, j \in DOMAIN s :
        i < j => ~ListLess(safe_itemgetter(keys, s[j]), safe_itemgetter(keys, s[i]))

Refs(from, n) == [i \in 1..n |-> from + i]

\* the rows an input factory hands out, as they are now
InputRows(name) == [i \in DOMAIN inputs[name].rows |-> heap[inputs[name].rows[i]]]

Count_of(s, x) == Cardinality({i \in DOMAIN s : s[i] = x})

OneRun == [r \in RunIds |-> IF r = 1 THEN "running" ELSE "idle"]

\* ------------------------------------------------------------ join streams

\* left rows: key k, column v (also on the right), own column x
LeftRows == {[k |-> 1, v |-> v, x |-> 5] : v \in {1, 2}} \cup {[k |-> 2, v |-> 1, x |-> 5]}
\* right rows: key k, column v (also on the left), own column w; one without v
RightRows == {[k |-> k, v |-> 3, w |-> 4] : k \in {1, 2, 3}} \cup {[k |-> 2, w |-> 6]}
JoinKeys == {<<>>, <<"k">>}
JoinerKinds == {"Inner", "Outer", "Left", "Right"}

JoinGraph(kind, keys) ==
    << Node("ReadIter", [name |-> "a"], None, None),
       Node("ReadIter", [name |-> "b"], None, None),
       Node("Join", [joiner |-> [kind |-> kind, suffix_a |-> "_1", suffix_b |-> "_2"],
                     keys |-> keys], 1, 2) >>

InitJoin ==
    \E kind \in JoinerKinds, keys \in JoinKeys :
    \E left \in SeqsUpTo(LeftRows, MaxRows), right \in SeqsUpTo(RightRows, MaxRows) :
        /\ IsSorted(left, keys) /\ IsSorted(right, keys)
        /\ graph = JoinGraph(kind, keys)
        /\ heap = left \o right
        /\ inputs = [a |-> [rows |-> Refs(0, Len(left)), fresh |-> FALSE],
                     b |-> [rows |-> Refs(Len(left), Len(right)), fresh |-> FALSE]]
        /\ files = <<>>
        /\ gens = [r \in RunIds |-> NewGens]
        /\ handles = [r \in RunIds |-> {}]
        /\ out = [r \in RunIds |-> <<>>]
        /\ status = OneRun

NextJoin == Next_row(1)

SpecJoin == InitJoin /\ [][NextJoin]_vars

\* ------------------------------------------------------------- join claims

JKind == graph[Root].arg.joiner.kind
JKeys == graph[Root].arg.keys
JLeft == InputRows("a")
JRight == InputRows("b")
KeyEq(a, b) == safe_itemgetter(JKeys, a) = safe_itemgetter(JKeys, b)
Pairs == {p \in (DOMAIN JLeft) \X (DOMAIN JRight) : KeyEq(JLeft[p[1]], JRight[p[2]])}
PairRow(p) == prod_row(JKeys, JLeft[p[1]], JRight[p[2]], "_1", "_2")
UnmatchedLeft == {i \in DOMAIN JLeft : \A j \in DOMAIN JRight : ~KeyEq(JLeft[i], JRight[j])}
UnmatchedRight == {j \in DOMAIN JRight : \A i \in DOMAIN JLeft : ~KeyEq(JLeft[i], JRight[j])}

\* how often row x is due: once per matched pair that makes it, and once per
\* unmatched row of a preserved side that equals it
Due(x, keepLeft, keepRight) ==
    Cardinality({p \in Pairs : PairRow(p) = x})
    + (IF keepLeft THEN Cardinality({i \in UnmatchedLeft : JLeft[i] = x}) ELSE 0)
    + (IF keepRight THEN Cardinality({j \in UnmatchedRight : JRight[j] = x}) ELSE 0)

AllDue(keepLeft, keepRight) ==
    {PairRow(p) : p \in Pairs}
    \cup (IF keepLeft THEN {JLeft[i] : i \in UnmatchedLeft} ELSE {})
    \cup (IF keepRight THEN {JRight[j] : j \in UnmatchedRight} ELSE {})

YieldsExactly(keepLeft, keepRight) ==
    /\ \A x \in Range(out[1]) \cup AllDue(keepLeft, keepRight) :
            Count_of(out[1], x) = Due(x, keepLeft, keepRight)
    /\ Len(out[1]) = Cardinality(Pairs)
                     + (IF keepLeft THEN Cardinality(UnmatchedLeft) ELSE 0)
                     + (IF keepRight THEN Cardinality(UnmatchedRight) ELSE 0)

\* C1: an inner join of sorted streams yields exactly one row per pair (a, b)
\* of a left and a right row equal on the join keys, and no other row
C1_InnerJoinPairs ==
    (status[1] = "done" /\ JKind = "Inner") => YieldsExactly(FALSE, FALSE)

\* an inner join with a key of multiplicity 2 x 1 and a key on one side only
C1_Witness ==
    /\ status[1] = "done" /\ JKind = "Inner" /\ JKeys = <<"k">>
    /\ Len(out[1]) = 2
    /\ UnmatchedRight # {}

\* C2: an outer join yields the inner join's rows plus every unmatched left
\* row and every unmatched right row, each once and unchanged
C2_OuterIsInnerPlusUnmatched ==
    (status[1] = "done" /\ JKind = "Outer") => YieldsExactly(TRUE, TRUE)

C2_Witness ==
    /\ status[1] = "done" /\ JKind = "Outer" /\ JKeys = <<"k">>
    /\ Pairs # {} /\ UnmatchedLeft # {} /\ UnmatchedRight # {}

\* C3: a left join keeps the unmatched left rows and no unmatched right row,
\* a right join the mirror image; a matched group yields its product only
C3_OneSidedJoins ==
    /\ (status[1] = "done" /\ JKind = "Left") => YieldsExactly(TRUE, FALSE)
    /\ (status[1] = "done" /\ JKind = "Right") => YieldsExactly(FALSE, TRUE)

C3_Witness ==
    /\ status[1] = "done" /\ JKind = "Right" /\ JKeys = <<"k">>
    /\ Pairs # {} /\ UnmatchedLeft # {} /\ UnmatchedRight # {}

\* ----------------------------------------------------------- reduce streams

\* rows with group column k, value column x and their place of arrival, id
ReduceStreams ==
    {[i \in DOMAIN s |-> [k |-> s[i][1], x |-> s[i][2], id |-> i]] :
        s \in SeqsUpTo({1, 2} \X {1, 2}, MaxGroup)}

Reducers ==
    {[kind |-> "First"], [kind |-> "Count", column |-> "n"]}
    \cup {[kind |-> "TopN", column |-> "x", n |-> n] : n \in 0..MaxN}

ReduceGraph(reducer, keys) ==
    << Node("ReadIter", [name |-> "a"], None, None),
       Node("Reduce", [reducer |-> reducer, keys |-> keys], 1, None) >>

InitReduce ==
    \E reducer \in Reducers, keys \in {<<>>, <<"k">>}, rows \in ReduceStreams :
        /\ graph = ReduceGraph(reducer, keys)
        /\ heap = rows
        /\ inputs = [a |-> [rows |-> Refs(0, Len(rows)), fresh |-> FALSE]]
        /\ files = <<>>
        /\ gens = [r \in RunIds |-> NewGens]
        /\ handles = [r \in RunIds |-> {}]
        /\ out = [r \in RunIds |-> <<>>]
        /\ status = OneRun

NextReduce == Next_row(1)

SpecReduce == InitReduce /\ [][NextReduce]_vars

\* ------------------------------------------------------------ reduce claims

RIn == InputRows("a")
RKeys == graph[Root].arg.keys
RReducer == graph[Root].arg.reducer
KeyAt(i) == safe_itemgetter(RKeys, RIn[i])

\* the groups: the maximal runs lo..hi of rows with one key tuple
Groups ==
    {g \in (DOMAIN RIn) \X (DOMAIN RIn) :
        /\ g[1] <= g[2]
        /\ \A i \in g[1]..g[2] : KeyAt(i) = KeyAt(g[1])
        /\ (g[1] = 1 \/ KeyAt(g[1] - 1) # KeyAt(g[1]))
        /\ (g[2] = Len(RIn) \/ KeyAt(g[2] + 1) # KeyAt(g[2]))}

Min(a, b) == IF a < b THEN a ELSE b

\* the rows of group g that were yielded
Selected(g) == {i \in g[1]..g[2] : \E j \in DOMAIN out[1] : out[1][j].id = i}

TopNSelects ==
    /\ \A j \in DOMAIN out[1] : out[1][j] = RIn[out[1][j].id]
    /\ \A g \in Groups :
        /\ Cardinality({j \in DOMAIN out[1] : out[1][j].id \in g[1]..g[2]})
              = Min(RReducer.n, g[2] - g[1] + 1)
        /\ Cardinality(Selected(g)) = Min(RReducer.n, g[2] - g[1] + 1)
        /\ \A i \in Selected(g), j \in (g[1]..g[2]) \ Selected(g) :
              RIn[i].x > RIn[j].x \/ (RIn[i].x = RIn[j].x /\ i < j)

\* C4: for every n >= 0 TopN yields, without raising, min(n, |group|) rows of
\* the group, the largest by col, an earlier row before a later equal one
C4_TopN ==
    RReducer.kind = "TopN" =>
        /\ status[1] \in {"running", "done"}
        /\ status[1] = "done" => TopNSelects

\* the same for n >= 1 only
C4_TopN_positive_n ==
    (RReducer.kind = "TopN" /\ RReducer.n >= 1) =>
        /\ status[1] \in {"running", "done"}
        /\ status[1] = "done" => TopNSelects

C4_Witness_positive_n ==
    /\ RReducer.kind = "TopN" /\ RReducer.n = 2 /\ status[1] = "done"
    /\ \E g \in Groups : g[2] - g[1] = 2 /\ RIn[g[1]].x = 1 /\ RIn[g[2]].x = 2

RECURSIVE SumOf(_, _)
SumOf(s, col) == IF s = <<>> THEN 0 ELSE s[1][col] + SumOf(Tail(s), col)

KeyTuples == {KeyAt(i) : i \in DOMAIN RIn}

\* C5: on a stream sorted by K, Count('n') yields one row per distinct
\* K-tuple, holding the K columns and n = the number of rows with that tuple;
\* the n add up to the number of input rows
C5_CountCoverage ==
    (RReducer.kind = "Count" /\ status[1] = "done" /\ IsSorted(RIn, RKeys)) =>
        /\ Len(out[1]) = Cardinality(KeyTuples)
        /\ \A t \in KeyTuples :
              \E j \in DOMAIN out[1] :
                  /\ DOMAIN out[1][j] = Range(RKeys) \cup {"n"}
                  /\ safe_itemgetter(RKeys, out[1][j]) = t
                  /\ out[1][j].n = Cardinality({i \in DOMAIN RIn : KeyAt(i) = t})
        /\ SumOf(out[1], "n") = Len(RIn)

C5_Witness ==
    /\ RReducer.kind = "Count" /\ status[1] = "done" /\ IsSorted(RIn, RKeys)
    /\ RKeys = <<"k">> /\ Len(out[1]) = 2 /\ Len(RIn) = 3

\* -------------------------------------------------------------- map streams

Texts == { <<>>, <<"A">>, <<"a", ",">>, <<"A", " ", "b">>, <<"a", "+", " ">> }

\* rows with a text column and a number column
TextRows == {[text |-> t, x |-> x] : t \in Texts, x \in {1, 2}}

Mappers ==
    { [kind |-> "Dummy"],
      [kind |-> "FilterPunctuation", column |-> "text"],
      [kind |-> "LowerCase", column |-> "text"],
      [kind |-> "Split", column |-> "text"],
      [kind |-> "Project", columns |-> <<"text">>],
      [kind |-> "Project", columns |-> <<"y">>],
      [kind |-> "Remove", columns |-> <<"x">>],
      [kind |-> "Filter", condition |-> "x_is_1"],
      [kind |-> "Apply", columns |-> <<"x">>, result_column |-> "y", func |-> "add_one"],
      [kind |-> "Product", columns |-> <<"x", "x">>, result_column |-> "product"] }

MapGraph(mapper) ==
    << Node("ReadIter", [name |-> "a"], None, None),
       Node("Map", [mapper |-> mapper], 1, None) >>

InitMap ==
    \E mapper \in Mappers, rows \in SeqsUpTo(TextRows, MaxRows), fresh \in BOOLEAN :
        /\ graph = MapGraph(mapper)
        /\ heap = rows
        /\ inputs = [a |-> [rows |-> Refs(0, Len(rows)), fresh |-> fresh]]
        /\ files = <<>>
        /\ gens = [r \in RunIds |-> NewGens]
        /\ handles = [r \in RunIds |-> {}]
        /\ out = [r \in RunIds |-> <<>>]
        /\ status = OneRun

NextMap == Next_row(1)

SpecMap == InitMap /\ [][NextMap]_vars

\* ---------------------------------------------------------------- map claims

MMapper == graph[Root].arg.mapper

\* no row object that exists before a step of the run is different after it
RowsUntouched == \A ref \in DOMAIN heap : heap'[ref] = heap[ref]

\* C6: a mapper leaves the row object it receives from upstream as it was:
\* every row that exists when Map is resumed has the same columns and values
\* afterwards, whichever of the mappers runs
C6_MappersReadOnly == [][RowsUntouched]_vars

\* the mappers that copy before they write
CopyingMapper == MMapper.kind \notin {"FilterPunctuation", "LowerCase"}

C6_CopyingMappersReadOnly == [][CopyingMapper => RowsUntouched]_vars

\* ------------------------------------------------------------- run twice

\* the operation under the last Map: it reads the text the Map may rewrite
FirstOps ==
    { [op |-> "Map", arg |-> [mapper |-> [kind |-> "Dummy"]]],
      [op |-> "Map", arg |-> [mapper |-> [kind |-> "Filter", condition |-> "has_upper"]]],
      [op |-> "Reduce", arg |-> [reducer |-> [kind |-> "First"], keys |-> <<"text">>]],
      [op |-> "Reduce", arg |-> [reducer |-> [kind |-> "Count", column |-> "n"],
                                 keys |-> <<"text">>]] }

LastMappers ==
    { [kind |-> "LowerCase", column |-> "text"],
      [kind |-> "FilterPunctuation", column |-> "text"],
      [kind |-> "Split", column |-> "text"],
      [kind |-> "Remove", columns |-> <<"x">>] }

ChainGraph(first, mapper) ==
    << Node("ReadIter", [name |-> "a"], None, None),
       Node(first.op, first.arg, 1, None),
       Node("Map", [mapper |-> mapper], 2, None) >>

InitRerun ==
    \E first \in FirstOps, mapper \in LastMappers,
       rows \in SeqsUpTo(TextRows, MaxRows), fresh \in BOOLEAN :
        /\ graph = ChainGraph(first, mapper)
        /\ heap = rows
        /\ inputs = [a |-> [rows |-> Refs(0, Len(rows)), fresh |-> fresh]]
        /\ files = <<>>
        /\ gens = [r \in RunIds |-> NewGens]
        /\ handles = [r \in RunIds |-> {}]
        /\ out = [r \in RunIds |-> <<>>]
        /\ status = OneRun

NextRerun == \/ Next_row(1)
             \/ StartRun(2)
             \/ Next_row(2)

SpecRerun == InitRerun /\ [][NextRerun]_vars

BothEnded == status[1] \notin {"idle", "running"} /\ status[2] \notin {"idle", "running"}

\* C7: a graph run twice on inputs whose factories hand out the same rows
\* each time ends the same way and yields the same rows in the same order
C7_RerunSame == BothEnded => (out[2] = out[1] /\ status[2] = status[1])

\* the same, for factories that build their rows anew on every call
C7_RerunSame_new_rows == (BothEnded /\ inputs.a.fresh) => (out[2] = out[1] /\ status[2] = status[1])

\* the same, for the last mappers that copy before they write
C7_RerunSame_copying == (BothEnded /\ CopyingMapper) => (out[2] = out[1] /\ status[2] = status[1])

\* -------------------------------------------------------------------- files

\* lines the parser turns into a row, and a line it raises on (no row is read)
Lines == {[ok |-> TRUE, row |-> [k |-> k, x |-> 1]] : k \in {1, 2}}
         \cup {[ok |-> FALSE, row |-> [k |-> 0, x |-> 0]]}

Contents == SeqsUpTo(Lines, MaxLines)

ReadNode(filename) == Node("Read", [filename |-> filename, parser |-> "parser"], None, None)

\* one file under a mapper, one under a TopN (n = 0 raises above the open
\* file), two files under a join
FileGraphs ==
    { << ReadNode("f"), Node("Map", [mapper |-> [kind |-> "Dummy"]], 1, None) >> }
    \cup { << ReadNode("f"),
              Node("Reduce", [reducer |-> [kind |-> "TopN", column |-> "x", n |-> n],
                              keys |-> <<"k">>], 1, None) >> : n \in {0, 1} }
    \cup { << ReadNode("f"), ReadNode("g"),
              Node("Join", [joiner |-> [kind |-> "Inner", suffix_a |-> "_1", suffix_b |-> "_2"],
                            keys |-> <<"k">>], 1, 2) >> }

\* the files on disk: f always, g for a graph that reads it (or missing)
FileSets(g) ==
    IF Len(g) = 2 THEN {[f |-> c] : c \in Contents}
    ELSE {[f |-> c, g |-> d] : c \in Contents, d \in Contents}
         \cup {[f |-> c] : c \in Contents}

InitFiles ==
    \E g \in FileGraphs :
    \E fs \in FileSets(g) :
        /\ graph = g
        /\ files = fs
        /\ heap = <<>>
        /\ inputs = <<>>
        /\ gens = [r \in RunIds |-> NewGens]
        /\ handles = [r \in RunIds |-> {}]
        /\ out = [r \in RunIds |-> <<>>]
        /\ status = OneRun

NextFiles == \/ Next_row(1)
             \/ Abandon(1)
             \/ Finalize(1)

\* a stream that was dropped or that failed is finalised in the end
SpecFiles == InitFiles /\ [][NextFiles]_vars /\ WF_vars(Finalize(1))

Ended(r) == status[r] \notin {"idle", "running"}

InitGraph ==
    /\ graph = <<>>
    /\ inputs = <<>>
    /\ files = <<>>
    /\ heap = <<>>
    /\ gens = [r \in RunIds |-> <<>>]
    /\ handles = [r \in RunIds |-> {}]
    /\ out = [r \in RunIds |-> <<>>]
    /\ status = [r \in RunIds |-> "idle"]

NextGraph ==
    \/ \E name \in {"a", "b"} : Call_graph_from_iter(name)
    \/ Call_graph_from_file("f")
    \/ \E self \in DOMAIN graph :
       \E mapper \in {[kind |-> "Dummy"], [kind |-> "LowerCase", column |-> "text"]} :
          Call_map(self, mapper)
    \/ \E self \in DOMAIN graph : Call_reduce(self, [kind |-> "First"], <<"k">>)
    \/ \E self \in DOMAIN graph : Call_sort(self, <<"k">>)
    \/ \E self \in DOMAIN graph, join_graph \in DOMAIN graph :
          Call_join(self, [kind |-> "Inner", suffix_a |-> "_1", suffix_b |-> "_2"],
                    join_graph, <<"k">>)

SpecGraph == InitGraph /\ [][NextGraph]_vars

\* C8: a builder call adds one new node and leaves every node that existed
\* before it - the receiver and the other graph of a join among them - with
\* the operator, prev and side it had
C8_BuildersPure ==
    [][/\ Len(graph') = Len(graph) + 1
       /\ \A i \in DOMAIN graph : graph'[i] = graph[i]]_vars

\* one node extended twice and the other graph of two joins
C8_Witness ==
    \E i \in DOMAIN graph :
        /\ Cardinality({j \in DOMAIN graph : graph[j].prev = i}) >= 2
        /\ Cardinality({j \in DOMAIN graph : graph[j].op = "Join" /\ graph[j].side = i}) >= 2

\* ------------------------------------------------------------ missing input

MStreams == { <<>>, <<[k |-> 1]>>, <<[v |-> 1]>>, <<[k |-> 1], [k |-> 2]>> }

MContents == { <<>>,
               <<[ok |-> TRUE, row |-> [k |-> 1, x |-> 1]]>>,
               <<[ok |-> FALSE, row |-> [k |-> 0, x |-> 0]]>>,
               <<[ok |-> TRUE, row |-> [k |-> 1, x |-> 1]],
                 [ok |-> FALSE, row |-> [k |-> 0, x |-> 0]]>> }

MGraphs ==
    { << Node("ReadIter", [name |-> "a"], None, None),
         Node("Map", [mapper |-> [kind |-> "Dummy"]], 1, None) >> }
    \cup { << left, Node("ReadIter", [name |-> right], None, None),
              Node("Join", [joiner |-> [kind |-> kind, suffix_a |-> "_1", suffix_b |-> "_2"],
                            keys |-> <<"k">>], 1, 2) >> :
           left \in {Node("ReadIter", [name |-> "a"], None, None),
                     Node("ReadIter", [name |-> "b"], None, None),
                     ReadNode("f")},
           right \in {"a", "b"}, kind \in {"Inner", "Left"} }

\* the kwargs of run: each of a and b is passed or not
MInputs(as, bs) ==
    { [a |-> [rows |-> Refs(0, Len(as)), fresh |-> FALSE],
       b |-> [rows |-> Refs(Len(as), Len(bs)), fresh |-> FALSE]],
      [a |-> [rows |-> Refs(0, Len(as)), fresh |-> FALSE]],
      [b |-> [rows |-> Refs(Len(as), Len(bs)), fresh |-> FALSE]],
      <<>> }

InitMissing ==
    \E g \in MGraphs, as \in MStreams, bs \in MStreams :
    \E ins \in MInputs(as, bs), fs \in {[f |-> c] : c \in MContents} \cup {<<>>} :
        /\ graph = g
        /\ heap = as \o bs
        /\ inputs = ins
        /\ files = fs
        /\ gens = [r \in RunIds |-> NewGens]
        /\ handles = [r \in RunIds |-> {}]
        /\ out = [r \in RunIds |-> <<>>]
        /\ status = OneRun

NextMissing == \/ Next_row(1)
               \/ Abandon(1)
               \/ Finalize(1)

SpecMissing == InitMissing /\ [][NextMissing]_vars

MissingSource ==
    \E n \in DOMAIN graph : graph[n].op = "ReadIter" /\ graph[n].arg.name \notin DOMAIN inputs

\* what the first pull of source n raises, read off the inputs: keys are the
\* columns its consumer looks up in the first row
SourceError(n, keys) ==
    IF graph[n].op = "ReadIter"
    THEN IF graph[n].arg.name \notin DOMAIN inputs THEN "MissingInput"
         ELSE IF InputRows(graph[n].arg.name) # <<>>
                 /\ ~HasKeys(InputRows(graph[n].arg.name)[1], keys) THEN "KeyError"
         ELSE "none"
    ELSE IF graph[n].arg.filename \notin DOMAIN files THEN "FileNotFoundError"
         ELSE IF files[graph[n].arg.filename] # <<>>
                 /\ ~files[graph[n].arg.filename][1].ok THEN "ParseError"
         ELSE "none"

\* the error of the source that is pulled first among those that raise
FirstError ==
    IF graph[Root].op = "Join"
    THEN IF SourceError(graph[Root].prev, <<"k">>) # "none"
         THEN SourceError(graph[Root].prev, <<"k">>)
         ELSE SourceError(graph[Root].side, <<"k">>)
    ELSE SourceError(graph[Root].prev, <<>>)

\* C9: with a ReadIter source whose name was not passed to run, the stream
\* ends with the missing-input error and no row is delivered before it
C9_MissingInput ==
    MissingSource => (out[1] = <<>> /\ status[1] \in {"running", "abandoned", "MissingInput"})

\* C9 as it holds: the stream ends with an error and no row is delivered
\* before it; the error is the missing-input error unless the left input of
\* a join, which is pulled first, raises an error of its own
C9_MissingInput_first_error ==
    MissingSource =>
        /\ out[1] = <<>>
        /\ status[1] \in {"running", "abandoned", FirstError}
        /\ SourceError(graph[Root].prev, <<"k">>) \in {"none", "MissingInput"}
              => FirstError = "MissingInput"

\* the right source of a join is missing and the error came after the first
\* row of the left source was read
C9_Witness ==
    /\ status[1] = "MissingInput" /\ out[1] = <<>>
    /\ graph[Root].op = "Join" /\ graph[graph[Root].prev].op = "ReadIter"
    /\ gens[1][graph[Root].prev].pos = 1

\* ---------------------------------------------------------- interleaved runs

\* two runs of one graph on the same factories, both started; the caller
\* keeps a copy of the rows (the second half of the heap) that no source reads
InitInterleaved ==
    \E first \in FirstOps, mapper \in LastMappers,
       rows \in SeqsUpTo({row \in TextRows : row.x = 1}, MaxRows), fresh \in BOOLEAN :
        /\ graph = ChainGraph(first, mapper)
        /\ heap = rows \o rows
        /\ inputs = [a |-> [rows |-> Refs(0, Len(rows)), fresh |-> fresh]]
        /\ files = <<>>
        /\ gens = [r \in RunIds |-> NewGens]
        /\ handles = [r \in RunIds |-> {}]
        /\ out = [r \in RunIds |-> <<>>]
        /\ status = [r \in RunIds |-> "running"]

NextInterleaved == \/ Next_row(1)
                   \/ Next_row(2)

SpecInterleaved == InitInterleaved /\ [][NextInterleaved]_vars

\* the rows as the factories had them when the runs were started
KeptRows == SubSeq(heap, Len(inputs.a.rows) + 1, 2 * Len(inputs.a.rows))

\* a run executed alone on those rows, consumed to its end
RECURSIVE Alone_rest(_, _)
Alone_next(res, acc) ==
    IF res.tag = "row" THEN Alone_rest(res.S, Append(acc, res.S.heap[res.ref]))
    ELSE [out |-> acc, status |-> IF res.tag = "stop" THEN "done" ELSE res.tag]
Alone_rest(S, acc) == Alone_next(Pull(S, Root), acc)
Alone == Alone_rest([heap |-> KeptRows \o KeptRows, g |-> NewGens, open |-> {}], <<>>)

SameAsAlone(r) == out[r] = Alone.out /\ status[r] = Alone.status

\* C11: two runs of one graph whose pulls are interleaved in any order each
\* yield the rows, and end the way, the run yields when it is executed alone
C11_RunsIndependent == \A r \in RunIds : Ended(r) => SameAsAlone(r)

\* the same, for factories that build their rows anew on every call
C11_RunsIndependent_new_rows ==
    inputs.a.fresh => \A r \in RunIds : Ended(r) => SameAsAlone(r)

\* the same, for the last mappers that copy before they write
C11_RunsIndependent_copying ==
    CopyingMapper => \A r \in RunIds : Ended(r) => SameAsAlone(r)

\* ------------------------------------------------------------ join dispatch

JCalls == gens[1][Root].calls
LeftKeys == {safe_itemgetter(JKeys, JLeft[i]) : i \in DOMAIN JLeft}
RightKeys == {safe_itemgetter(JKeys, JRight[j]) : j \in DOMAIN JRight}

\* the rows of source name whose key tuple is t, in stream order
GroupOf(name, t) ==
    SelectSeq(inputs[name].rows, LAMBDA ref : safe_itemgetter(JKeys, heap[ref]) = t)

\* a joiner reads rows_b whole; it reads rows_a unless rows_b is empty and
\* the joiner does not keep unmatched left rows
ReadsLeft(c) == c.a /\ (c.b \/ JKind \in {"Outer", "Left"})

\* C12: on sorted streams Join calls the joiner once per key tuple of either
\* side, in ascending key order, with the left group exactly when the key is
\* on the left and the right group exactly when it is on the right; the rows
\* a joiner reads from a group are the rows of that side with that key
C12_Dispatch ==
    status[1] = "done" =>
        /\ Len(JCalls) = Cardinality(LeftKeys \cup RightKeys)
        /\ {JCalls[i].key : i \in DOMAIN JCalls} = LeftKeys \cup RightKeys
        /\ \A i, j \in DOMAIN JCalls : i < j => ListLess(JCalls[i].key, JCalls[j].key)
        /\ \A i \in DOMAIN JCalls :
              /\ JCalls[i].a = (JCalls[i].key \in LeftKeys)
              /\ JCalls[i].b = (JCalls[i].key \in RightKeys)
              /\ JCalls[i].rowsB = (IF JCalls[i].b THEN GroupOf("b", JCalls[i].key) ELSE <<>>)
              /\ JCalls[i].rowsA = (IF ReadsLeft(JCalls[i])
                                    THEN GroupOf("a", JCalls[i].key) ELSE <<>>)

\* a left-only key, a key on both sides, and a right-only key that is passed
\* after the left side is exhausted
C12_Witness ==
    /\ status[1] = "done" /\ JKind = "Outer" /\ Len(JCalls) = 3
    /\ JCalls[1].a /\ ~JCalls[1].b
    /\ JCalls[2].a /\ JCalls[2].b /\ JCalls[2].rowsA # <<>> /\ JCalls[2].rowsB # <<>>
    /\ ~JCalls[3].a /\ JCalls[3].b

\* ---------------------------------------------------------- joined row layout

\* one left and one right row with the same key; besides k each has a choice
\* of further columns, some with names that end like a suffix
LeftValues == ("k" :> 1) @@ ("v" :> 11) @@ ("v_1" :> 12) @@ ("x" :> 13)
RightValues == ("k" :> 1) @@ ("v" :> 21) @@ ("v_2" :> 22) @@ ("w" :> 23)

RowOf(values, cols) == [c \in cols \cup {"k"} |-> values[c]]

Suffixes == { <<"_1", "_2">>, <<"_x", "_x">> }

LayoutGraph(suffixes, keys) ==
    << Node("ReadIter", [name |-> "a"], None, None),
       Node("ReadIter", [name |-> "b"], None, None),
       Node("Join", [joiner |-> [kind |-> "Inner", suffix_a |-> suffixes[1],
                                 suffix_b |-> suffixes[2]],
                     keys |-> keys], 1, 2) >>

InitLayout ==
    \E suffixes \in Suffixes, keys \in JoinKeys :
    \E ca \in SUBSET {"v", "v_1", "x"}, cb \in SUBSET {"v", "v_2", "w"} :
        /\ graph = LayoutGraph(suffixes, keys)
        /\ heap = << RowOf(LeftValues, ca), RowOf(RightValues, cb) >>
        /\ inputs = [a |-> [rows |-> <<1>>, fresh |-> FALSE],
                     b |-> [rows |-> <<2>>, fresh |-> FALSE]]
        /\ files = <<>>
        /\ gens = [r \in RunIds |-> NewGens]
        /\ handles = [r \in RunIds |-> {}]
        /\ out = [r \in RunIds |-> <<>>]
        /\ status = OneRun

NextLayout == Next_row(1)

SpecLayout == InitLayout /\ [][NextLayout]_vars

\* the matched pair (a, b) and the names the layout rules speak of
PairA == JLeft[1]
PairB == JRight[1]
SuffixA == graph[Root].arg.joiner.suffix_a
SuffixB == graph[Root].arg.joiner.suffix_b
Common == ((DOMAIN PairA) \cap (DOMAIN PairB)) \ Range(JKeys)
OnlyA == (DOMAIN PairA) \ (DOMAIN PairB)
OnlyB == (DOMAIN PairB) \ (DOMAIN PairA)
LayoutNames ==
    Range(JKeys) \cup {k \o SuffixA : k \in Common} \cup {k \o SuffixB : k \in Common}
    \cup OnlyA \cup OnlyB
LayoutSize ==
    Len(JKeys) + 2 * Cardinality(Common) + Cardinality(OnlyA) + Cardinality(OnlyB)

Layout(row) ==
    /\ DOMAIN row = LayoutNames
    /\ \A k \in Range(JKeys) : k \in DOMAIN row /\ row[k] = PairA[k]
    /\ \A k \in Common :
          /\ k \o SuffixA \in DOMAIN row /\ row[k \o SuffixA] = PairA[k]
          /\ k \o SuffixB \in DOMAIN row /\ row[k \o SuffixB] = PairB[k]
          /\ k \notin DOMAIN row
    /\ \A k \in OnlyA : k \in DOMAIN row /\ row[k] = PairA[k]
    /\ \A k \in OnlyB : k \in DOMAIN row /\ row[k] = PairB[k]

\* the names of the layout are all different
NoClash == Cardinality(LayoutNames) = LayoutSize

\* C13: the row of a matched pair has the keys with a's values, each common
\* non-key column twice under its suffixed names with a's and b's value and
\* not under its own name, each other column verbatim, and nothing else
C13_Layout == \A i \in DOMAIN out[1] : Layout(out[1][i])

\* the same, when no suffixed name is the name of another column of the row
C13_Layout_no_clash == NoClash => \A i \in DOMAIN out[1] : Layout(out[1][i])

\* C17: the row of a matched pair has as many columns as the layout names:
\* no suffixed column coincides with another column and no value is lost
C17_NoValueLost == \A i \in DOMAIN out[1] : Cardinality(DOMAIN out[1][i]) = LayoutSize

\* the same, when the names are all different
C17_NoValueLost_no_clash ==
    NoClash => \A i \in DOMAIN out[1] : Cardinality(DOMAIN out[1][i]) = LayoutSize

\* ----------------------------------------------------------- reduce grouping

RCalls == gens[1][Root].calls

\* the i-th group in stream order
GroupAt(i) ==
    CHOOSE g \in Groups : Cardinality({h \in Groups : h[1] < g[1]}) = i - 1

\* the rows a reducer reads of the group lo..hi: First stops after one row
ReadOf(g) ==
    IF RReducer.kind = "First" THEN <<inputs.a.rows[g[1]]>>
    ELSE [i \in 1..(g[2] - g[1] + 1) |-> inputs.a.rows[g[1] + i - 1]]

\* C14: Reduce calls the reducer once per maximal run of rows with one key
\* tuple, in stream order, never on an empty group; the rows the reducer
\* reads are the rows of that run in order, and what First leaves unread of
\* a run is not read by the next call
C14_Grouping ==
    status[1] = "done" =>
        /\ Len(RCalls) = Cardinality(Groups)
        /\ \A i \in DOMAIN RCalls :
              /\ RCalls[i].key = KeyAt(GroupAt(i)[1])
              /\ RCalls[i].rowsA = ReadOf(GroupAt(i))
              /\ RCalls[i].rowsA # <<>>

\* First on a run of two rows followed by a run of one row
C14_Witness ==
    /\ status[1] = "done" /\ RReducer.kind = "First" /\ RKeys = <<"k">>
    /\ Len(RIn) = 3 /\ KeyAt(1) = KeyAt(2) /\ KeyAt(2) # KeyAt(3)
    /\ Len(RCalls) = 2 /\ RCalls[2].rowsA = <<inputs.a.rows[3]>>

\* ------------------------------------------------------------ shape of graphs

Links(n) == {graph[n].prev, graph[n].side} \ {None}

\* the nodes reached from the nodes of front in at most k steps along links
RECURSIVE Reached(_, _)
Reached(front, k) ==
    IF k = 0 \/ front = {} THEN {}
    ELSE front \cup Reached(UNION {Links(m) : m \in front}, k - 1)

\* C15: in every graph the builders make, a source has no prev and no side,
\* a Map, Reduce or Sort has a prev and no side, a Join has both, every link
\* goes to a node that exists, no chain of links comes back to its node, and
\* so every assert of run holds
C15_Shape ==
    \A n \in DOMAIN graph :
        /\ graph[n].op \in {"ReadIter", "Read"} => (graph[n].prev = None /\ graph[n].side = None)
        /\ graph[n].op \in {"Map", "Reduce", "Sort"} =>
              (graph[n].prev \in DOMAIN graph /\ graph[n].side = None)
        /\ graph[n].op = "Join" =>
              (graph[n].prev \in DOMAIN graph /\ graph[n].side \in DOMAIN graph)
        /\ graph[n].op \in {"ReadIter", "Read", "Map", "Reduce", "Sort", "Join"}
        /\ n \notin Reached(Links(n), Len(graph))
        /\ run_asserts(graph[n])

\* a join of a source with a node made from it
C15_Witness ==
    /\ Len(graph) = 3 /\ graph[1].op = "ReadIter" /\ graph[2].op = "Sort"
    /\ graph[3].op = "Join" /\ graph[3].prev = 2 /\ graph[3].side = 1

\* ---------------------------------------------------------------- split texts

\* texts with separators at the start, at the end, doubled, and alone
SplitTexts ==
    { <<>>, <<" ">>, <<" ", " ">>, <<"+">>, <<"a">>, <<"a", " ", "b">>,
      <<"a", " ", " ", "b">>, <<" ", "a">>, <<"a", " ">> }

InitSplit ==
    \E rows \in SeqsUpTo({[text |-> t, x |-> 1] : t \in SplitTexts}, MaxRows),
       fresh \in BOOLEAN :
        /\ graph = MapGraph([kind |-> "Split", column |-> "text"])
        /\ heap = rows
        /\ inputs = [a |-> [rows |-> Refs(0, Len(rows)), fresh |-> fresh]]
        /\ files = <<>>
        /\ gens = [r \in RunIds |-> NewGens]
        /\ handles = [r \in RunIds |-> {}]
        /\ out = [r \in RunIds |-> <<>>]
        /\ status = OneRun

NextSplit == Next_row(1)

SpecSplit == InitSplit /\ [][NextSplit]_vars

\* the pieces of text between its separators, an empty last piece left out
RECURSIVE Pieces(_, _)
Pieces(text, piece) ==
    IF text = <<>> THEN (IF piece = <<>> THEN <<>> ELSE <<piece>>)
    ELSE IF IsSeparator(Head(text)) THEN <<piece>> \o Pieces(Tail(text), <<>>)
    ELSE Pieces(Tail(text), Append(piece, Head(text)))

OnlySeparators(text) == \A i \in DOMAIN text : IsSeparator(text[i])

\* the tokens: none for a text of separators only, else the pieces
Tokens(text) == IF OnlySeparators(text) THEN <<>> ELSE Pieces(text, <<>>)

\* copies of row with the text column replaced by each token in turn
TokenRows(row, tokens) == [i \in DOMAIN tokens |-> SetItem(row, "text", tokens[i])]

RECURSIVE SplitRows(_)
SplitRows(rows) ==
    IF rows = <<>> THEN <<>>
    ELSE TokenRows(Head(rows), Tokens(Head(rows).text)) \o SplitRows(Tail(rows))

RECURSIVE PieceRows(_)
PieceRows(rows) ==
    IF rows = <<>> THEN <<>>
    ELSE TokenRows(Head(rows), Pieces(Head(rows).text, <<>>)) \o PieceRows(Tail(rows))

\* C16: Split yields no row for a text that is empty or made of separators
\* only, and otherwise one copy of the row per token, the text after the
\* last separator as the last token if it is not empty
C16_Split == status[1] = "done" => out[1] = SplitRows(InputRows("a"))

\* what holds instead: a row for every piece, the empty ones too, also for a
\* text of separators only
C16_Split_pieces == status[1] = "done" => out[1] = PieceRows(InputRows("a"))

\* ------------------------------------------------------------ join key order

\* the rows of a matched key: for each left row in turn, one per right row
Product(A, B) ==
    [m \in 1..(Len(A) * Len(B)) |->
        prod_row(JKeys, heap[A[((m - 1) \div Len(B)) + 1]],
                 heap[B[((m - 1) % Len(B)) + 1]], "_1", "_2")]

RowsAt(refs) == [i \in DOMAIN refs |-> heap[refs[i]]]

\* the rows due for key tuple t
KeyOut(t) ==
    IF GroupOf("a", t) # <<>> /\ GroupOf("b", t) # <<>>
    THEN Product(GroupOf("a", t), GroupOf("b", t))
    ELSE IF GroupOf("b", t) = <<>> /\ JKind \in {"Outer", "Left"}
    THEN RowsAt(GroupOf("a", t))
    ELSE IF GroupOf("a", t) = <<>> /\ JKind \in {"Outer", "Right"}
    THEN RowsAt(GroupOf("b", t))
    ELSE <<>>

\* the rows due for the key tuples ks, least key first
RECURSIVE JoinOut(_)
JoinOut(ks) ==
    IF ks = {} THEN <<>>
    ELSE LET t == CHOOSE x \in ks : \A y \in ks \ {x} : ListLess(x, y)
         IN KeyOut(t) \o JoinOut(ks \ {t})

\* C18: on sorted streams the rows of a join come in ascending order of
\* their key tuple, and the rows of one matched key left row by left row,
\* each with the right rows in their order
C18_KeyOrder ==
    status[1] = "done" =>
        /\ IsSorted(out[1], JKeys)
        /\ out[1] = JoinOut(LeftKeys \cup RightKeys)

\* an outer join whose rows have three different keys
C18_Witness ==
    /\ status[1] = "done" /\ JKind = "Outer" /\ JKeys = <<"k">> /\ Len(out[1]) = 3
    /\ out[1][1].k < out[1][2].k /\ out[1][2].k < out[1][3].k

====
